---- MODULE Spec2Model ----
(***************************************************************************)
(* Model of the image quality pipeline of backend/app/ml/pipeline.py:      *)
(* QualityAssessmentModel (assess_quality, compare_images),                *)
(* EnhancementAlgorithm (generate_enhancement_params, enhance_image) and   *)
(* MLPipeline.process_images, with the request schema that feeds it, and   *)
(* of the image routes of backend/app/routes/images.py that call it.       *)
(*                                                                         *)
(* Numbers are fixed point.  Quality metrics and their differences are in  *)
(* tenths of a point (a metric of 100.0 is 1000), enhancement_level is in  *)
(* tenths (0.5 is 5) and enhancement parameters are in 1/10000 (0.8 is     *)
(* 8000), so that |diff|/100*level is exactly diff * level in these units. *)
(***************************************************************************)
EXTENDS Integers, Sequences, FiniteSets, TLC

VARIABLES
    pc,                 \* position of the running call
    op,                 \* the entry point that was called
    heap,               \* the grid objects the caller holds
    image1, image2,     \* the arguments: references into heap
    enhancement_level,
    oracle,             \* features measured so far, by grid
    comparison,         \* compare_images: metrics, differences, verdict
    target_image,       \* process_images: reference of the chosen target
    quality_diff,
    params,             \* enhancement parameters
    enhanced,           \* enhance_image: the working grid
    enhanced_owner,     \* reference of the heap object whose buffer the
                        \* working grid occupies, 0 for a buffer of its own
    stages,             \* enhance_image: the stages run so far, in order
    result,             \* what the call returned or raised
    ml_pipeline,        \* the attributes of the shared MLPipeline instance
    suspended,          \* the frame of the other invocation in progress
    db_images,          \* the images collection: documents by insertion
    db_comparisons,     \* the comparisons collection
    s3_objects,         \* the bucket: content by object key
    request,            \* the /images/compare request being served
    response,           \* the last HTTP response
    db_users,           \* the users collection
    registrations       \* the /auth/register requests, each with its frame

\* everything outside the frame of the running call
\* the state of the /auth routes
accounts == <<db_users, registrations>>

outside == <<ml_pipeline, suspended, db_images, db_comparisons, s3_objects,
             request, response, accounts>>

vars == <<pc, op, heap, image1, image2, enhancement_level, oracle, comparison,
          target_image, quality_diff, params, enhanced, enhanced_owner, stages,
          result, outside>>

(***************************************************************************)
(* Units and small helpers                                                 *)
(***************************************************************************)
Abs(x) == IF x < 0 THEN -x ELSE x
Min(a, b) == IF a < b THEN a ELSE b
Max(a, b) == IF a > b THEN a ELSE b

MetricKeys == {"sharpness", "contrast", "noise", "natural", "overall_score"}
ParamKeys == {"sharpness", "contrast", "denoise", "color", "brightness"}

\* Bounds of the model
MaxDiff == 1000
MaxLevel == 20
MaxDim == 10
MaxChannels == 4

(***************************************************************************)
(* EnhancementAlgorithm.generate_enhancement_params                        *)
(***************************************************************************)
\* dict.get(key, default)
Get(d, k, default) == IF k \in DOMAIN d THEN d[k] ELSE default

DiffThreshold == -50
OverallThreshold == -100
SharpnessCap == 8000
ContrastCap == 6000
DenoiseCap == 7000
ColorCap == 5000
BrightnessFactor == 200

\* min(cap, abs(quality_diff[key]) / 100 * enhancement_level)
Scaled(cap, d, level) == Min(cap, Abs(d) * level)

\* the thresholds compared with <= instead of <
generate_enhancement_params_nonstrict(diff, level) ==
    [sharpness  |-> IF Get(diff, "sharpness", 0) <= DiffThreshold
                    THEN Scaled(SharpnessCap, diff["sharpness"], level) ELSE 0,
     contrast   |-> IF Get(diff, "contrast", 0) <= DiffThreshold
                    THEN Scaled(ContrastCap, diff["contrast"], level) ELSE 0,
     denoise    |-> IF Get(diff, "noise", 0) <= DiffThreshold
                    THEN Scaled(DenoiseCap, diff["noise"], level) ELSE 0,
     color      |-> IF Get(diff, "natural", 0) <= DiffThreshold
                    THEN Scaled(ColorCap, diff["natural"], level) ELSE 0,
     brightness |-> IF Get(diff, "overall_score", 0) <= OverallThreshold
                    THEN BrightnessFactor * level ELSE 0]

generate_enhancement_params(diff, level) ==
    [sharpness  |-> IF Get(diff, "sharpness", 0) < DiffThreshold
                    THEN Scaled(SharpnessCap, diff["sharpness"], level) ELSE 0,
     contrast   |-> IF Get(diff, "contrast", 0) < DiffThreshold
                    THEN Scaled(ContrastCap, diff["contrast"], level) ELSE 0,
     denoise    |-> IF Get(diff, "noise", 0) < DiffThreshold
                    THEN Scaled(DenoiseCap, diff["noise"], level) ELSE 0,
     color      |-> IF Get(diff, "natural", 0) < DiffThreshold
                    THEN Scaled(ColorCap, diff["natural"], level) ELSE 0,
     brightness |-> IF Get(diff, "overall_score", 0) < OverallThreshold
                    THEN BrightnessFactor * level ELSE 0]

ZeroParams == [k \in ParamKeys |-> 0]

(***************************************************************************)
(* Pixel grids (numpy arrays).  A grid is its shape (2 dims, or 3 with the *)
(* channel count last), its dtype and its content.  The content is a tile  *)
(* px of one or two intensities repeated over the flattened array (the     *)
(* element at flat index i is px[(i % Len(px)) + 1]), in tenths of a grey  *)
(* level, followed by the library filters applied to it (ops), which are   *)
(* kept as terms.  The value None is the grid of dtype "none".             *)
(***************************************************************************)
None == [shape |-> <<>>, dtype |-> "none", px |-> <<>>, ops |-> <<>>]

IsNone(g) == g.dtype = "none"

RECURSIVE Product(_)
Product(s) == IF s = <<>> THEN 1 ELSE Head(s) * Product(Tail(s))

\* ndarray.size
Size(g) == Product(g.shape)

\* len(image.shape)
Ndim(g) == Len(g.shape)

\* np.clip(x, 0, 255) on one intensity
Clip255(v) == Max(0, Min(2550, v))

\* astype(np.uint8) on one intensity already inside [0, 255]: the fraction
\* is dropped
ToUint8(v) == (v \div 10) * 10

\* np.clip(image, 0, 255).astype(np.uint8)
ClipToUint8(g) ==
    [g EXCEPT !.dtype = "uint8",
              !.px = [i \in DOMAIN g.px |-> ToUint8(Clip255(g.px[i]))]]

(***************************************************************************)
(* Shapes through the library calls of the assessor                        *)
(***************************************************************************)
Ok(shape) == [err |-> "", shape |-> shape]
Raise(e) == [err |-> e, shape |-> <<>>]

\* cv2.cvtColor(image, cv2.COLOR_BGR2GRAY): accepts 3 or 4 channels
cvtColorGray(shape) ==
    IF shape[3] \in {3, 4} THEN Ok(<<shape[1], shape[2]>>)
    ELSE Raise("cv2.error")

\* image if len(image.shape) == 2 else cv2.cvtColor(image, COLOR_BGR2GRAY)
GrayShape(shape) ==
    IF Len(shape) = 2 THEN Ok(shape) ELSE cvtColorGray(shape)

\* length of a[n:-n] along an axis of length len
CropLen(len, n) == Max(0, len - 2 * n)

\* scipy.signal.convolve2d(a, kernel, mode='valid') with a k x k kernel: one
\* operand must be at least as large as the other in every dimension
convolve2d_valid(a, k) ==
    IF (a[1] >= k /\ a[2] >= k) \/ (k >= a[1] /\ k >= a[2])
    THEN Ok(<<Abs(a[1] - k) + 1, Abs(a[2] - k) + 1>>)
    ELSE Raise("ValueError")

\* numpy broadcasting of two 2-d operands
BroadcastDim(a, b) == a = b \/ a = 1 \/ b = 1

broadcast(a, b) ==
    IF BroadcastDim(a[1], b[1]) /\ BroadcastDim(a[2], b[2])
    THEN Ok(<<IF a[1] = 1 THEN b[1] ELSE a[1], IF a[2] = 1 THEN b[2] ELSE a[2]>>)
    ELSE Raise("ValueError")

NoiseKernel == 5
NiqeKernel == 7
NoiseFallback == 500

(***************************************************************************)
(* QualityAssessmentModel.  The numeric features of a grid (variance of    *)
(* the Laplacian through tanh, standard deviation, mean absolute residual, *)
(* MSCN statistics) are values of the library's floating point functions;  *)
(* f carries them for the grid at hand: f.sharpness = 100*tanh(var/100),   *)
(* f.contrast = 100*std/255, f.noise = 100*(1 - mean|smoothed-original|),  *)
(* f.niqe = 100*exp(-energy/2)*(1 + 1/(1 + var)).                          *)
(***************************************************************************)
ZeroMetrics == [k \in MetricKeys |-> 0]

Returned(m) == [status |-> "ok", error |-> "", metrics |-> m]
Raised(e) == [status |-> "raised", error |-> e, metrics |-> ZeroMetrics]

\* np.clip(x, 0, 100)
Clip100(v) == Max(0, Min(1000, v))

\* _assess_niqe_score on a grid whose luminance has shape gray
assess_niqe_score(shape, f) ==
    LET gray == GrayShape(shape)
        mu == convolve2d_valid(gray.shape, NiqeKernel)
        mscn == broadcast(gray.shape, mu.shape)
    IN  IF gray.err # "" THEN [err |-> gray.err, value |-> 0]
        ELSE IF mu.err # "" THEN [err |-> mu.err, value |-> 0]
        ELSE IF mscn.err # "" THEN [err |-> mscn.err, value |-> 0]
        ELSE [err |-> "", value |-> Max(0, Min(1000, f.niqe))]

\* the body of assess_quality after the validation of its input
AssessValid(image, f) ==
    LET gray == GrayShape(image.shape)
        crop == <<CropLen(gray.shape[1], 2), CropLen(gray.shape[2], 2)>>
        smoothed == convolve2d_valid(crop, NoiseKernel)
        original == <<CropLen(gray.shape[1], 4), CropLen(gray.shape[2], 4)>>
        both == Product(original) > 0 /\ Product(smoothed.shape) > 0
        residual == broadcast(smoothed.shape, original)
        noise == IF both THEN Max(0, f.noise) ELSE NoiseFallback
        niqe == assess_niqe_score(image.shape, f)
        natural == niqe.value
        overall == (f.sharpness * 3 + f.contrast * 2 + noise * 2 + natural * 3) \div 10
    IN  IF gray.err # "" THEN Raised(gray.err)
        ELSE IF smoothed.err # "" THEN Raised(smoothed.err)
        ELSE IF both /\ residual.err # "" THEN Raised(residual.err)
        ELSE IF niqe.err # "" THEN Raised(niqe.err)
        ELSE Returned([sharpness |-> Clip100(f.sharpness),
                       contrast |-> Clip100(f.contrast),
                       noise |-> Clip100(noise),
                       natural |-> Clip100(natural),
                       overall_score |-> Clip100(overall)])

\* the validation without the image.size == 0 test
assess_quality_none_only(image, f) ==
    IF IsNone(image) THEN Returned(ZeroMetrics)
    ELSE AssessValid(image, f)

\* assess_quality(image)
assess_quality(image, f) ==
    IF IsNone(image) \/ Size(image) = 0 THEN Returned(ZeroMetrics)
    ELSE AssessValid(image, f)

\* the grid whose features assess_quality measures: the input as 8-bit
Measured(image) ==
    IF IsNone(image) \/ Size(image) = 0 THEN image
    ELSE IF image.dtype # "uint8" THEN ClipToUint8(image) ELSE image

(***************************************************************************)
(* EnhancementAlgorithm.enhance_image, stage by stage.  The numpy          *)
(* arithmetic of a stage is computed on the tile while the content is      *)
(* still plain pixels; a library filter (cv2.bilateralFilter, convolve2d,  *)
(* cv2.cvtColor) is recorded in ops with its argument, and so is whatever  *)
(* is applied after it.                                                    *)
(***************************************************************************)
SkipThreshold == 100

Plain(g) == g.ops = <<>>

\* the number of elements of an n-element array that carry px[j]
TileCount(n, p, j) == Cardinality({i \in 0..(n - 1) : i % p = j - 1})

RECURSIVE TileSum(_, _, _)
TileSum(px, n, j) ==
    IF j = 0 THEN 0
    ELSE TileCount(n, Len(px), j) * px[j] + TileSum(px, n, j - 1)

\* np.mean(enhanced)
Mean(g) == TileSum(g.px, Size(g), Len(g.px)) \div Size(g)

\* image.copy().astype(np.float32)
copy_float(g) == [g EXCEPT !.dtype = "float32"]

\* the working grid as a view of the input's buffer
copy_owner_view(ref) == ref

\* image.copy() allocates: the working grid has a buffer of its own
copy_owner(ref) == 0

\* np.clip(enhanced * (1 + brightness * 0.5), 0, 255)
brightness_stage(g, brightness) ==
    IF Plain(g)
    THEN [g EXCEPT !.px = [i \in DOMAIN g.px |->
                             Clip255((g.px[i] * (20000 + brightness)) \div 20000)]]
    ELSE [g EXCEPT !.ops = Append(@, <<"brightness", brightness>>)]

\* astype(np.uint8) of a float: the fraction is dropped (toward zero)
Trunc(v) == IF v >= 0 THEN v \div 10 ELSE -((-v) \div 10)

InUint8Range(g) == \A i \in DOMAIN g.px : -10 < g.px[i] /\ g.px[i] < 2560

\* enhanced.astype(np.uint8) without a clip before it: the conversion of a
\* float outside the 8-bit range is undefined in C; the builds either wrap
\* it modulo 256 or saturate it
astype_uint8(g) ==
    IF ~Plain(g) THEN {[g EXCEPT !.dtype = "uint8"]}
    ELSE IF InUint8Range(g)
    THEN {[g EXCEPT !.dtype = "uint8",
                    !.px = [i \in DOMAIN g.px |-> Trunc(g.px[i]) * 10]]}
    ELSE {[g EXCEPT !.dtype = "uint8",
                    !.px = [i \in DOMAIN g.px |-> (Trunc(g.px[i]) % 256) * 10]],
          [g EXCEPT !.dtype = "uint8",
                    !.px = [i \in DOMAIN g.px |-> ToUint8(Clip255(g.px[i]))]]}

\* int(enhancement_params["denoise"] * 10), then 50 * denoise_strength / 10
denoise_sigma(denoise) == 5 * (denoise \div 1000)

\* cv2.bilateralFilter(u8, 5, sigma, sigma).astype(np.float32)
denoise_stage(u8, denoise) ==
    [u8 EXCEPT !.dtype = "float32",
               !.ops = Append(@, <<"bilateralFilter", denoise_sigma(denoise)>>)]

\* np.clip(mean + (enhanced - mean) * (1 + contrast), 0, 255)
contrast_stage(g, contrast) ==
    IF Plain(g)
    THEN LET mean == Mean(g)
         IN [g EXCEPT !.px = [i \in DOMAIN g.px |->
               Clip255(mean + ((g.px[i] - mean) * (10000 + contrast)) \div 10000)]]
    ELSE [g EXCEPT !.ops = Append(@, <<"contrast", contrast>>)]

\* unsharp masking with convolve2d(enhanced, kernel, mode='same'), per channel
sharpen_stage(g, sharpness) ==
    [g EXCEPT !.ops = Append(@, <<"unsharp", sharpness>>)]

\* BGR -> HSV, saturation scaled by (1 + color * 0.5), HSV -> BGR
color_stage(u8, color) ==
    [u8 EXCEPT !.dtype = "float32",
               !.ops = Append(@, <<"saturation", color>>)]

\* the conversion to 8-bit without the clip before it: values wrap
final_stage_wraps(g) ==
    IF Plain(g)
    THEN [g EXCEPT !.dtype = "uint8",
                   !.px = [i \in DOMAIN g.px |-> (Trunc(g.px[i]) % 256) * 10]]
    ELSE [g EXCEPT !.dtype = "uint8", !.ops = Append(@, <<"clip_uint8", 0>>)]

\* np.clip(enhanced, 0, 255).astype(np.uint8)
final_stage(g) ==
    IF Plain(g) THEN ClipToUint8(g)
    ELSE [g EXCEPT !.dtype = "uint8", !.ops = Append(@, <<"clip_uint8", 0>>)]

\* contrast enhancement moved before the denoising
StageOrder_contrast_first ==
    <<"brightness", "contrast", "denoise", "sharpen", "color", "final">>

\* the order in which enhance_image goes through its stages
StageOrder == <<"brightness", "denoise", "contrast", "sharpen", "color", "final">>

StageIndex(name) == CHOOSE i \in DOMAIN StageOrder : StageOrder[i] = name

(***************************************************************************)
(* Inputs of generate_enhancement_params: a diff is a dict over any subset *)
(* of the metric keys (a missing key reads as 0); enhancement_level is     *)
(* whatever float a ComparisonRequest carries, the schema declares the     *)
(* field without a range constraint.                                       *)
(***************************************************************************)
DiffSamples == {-MaxDiff, OverallThreshold - 1, OverallThreshold,
                DiffThreshold - 1, DiffThreshold, 0, MaxDiff}

DiffDicts == UNION {[S -> DiffSamples] : S \in SUBSET MetricKeys}

\* ComparisonRequest.enhancement_level: Optional[float] = 0.5
ComparisonRequestLevels == {-(MaxLevel \div 2), 0, 5, 10, MaxLevel}

NoDiff == [k \in {} |-> 0]
NoComparison == [image1_metrics |-> NoDiff, image2_metrics |-> NoDiff,
                 differences |-> NoDiff, comparison |-> ""]
NoResult == [status |-> "", error |-> ""]
NoOracle == [g \in {} |-> 0]

\* MLPipeline.__init__: QualityAssessmentModel() with kernel_size 7 and
\* sigma 7/6 (in 1/10000), EnhancementAlgorithm() without attributes
MLPipeline ==
    [quality_model |-> [kernel_size |-> 7, sigma |-> 11667],
     enhancement |-> [a \in {} |-> 0]]

\* no other invocation in progress
NoFrame == [pc |-> "none"]

NoRequest == [route |-> ""]
NoResponse == [route |-> "", code |-> 0, detail |-> "", id |-> 0]
NoObjects == [k \in {} |-> ""]

\* the frame of a call that has not started
IdleFrame ==
    /\ pc = "idle"
    /\ image1 = 0
    /\ image2 = 0
    /\ enhancement_level = 5
    /\ comparison = NoComparison
    /\ target_image = 0
    /\ quality_diff = NoDiff
    /\ params = ZeroParams
    /\ enhanced = None
    /\ enhanced_owner = 0
    /\ stages = <<>>
    /\ result = NoResult

\* requests to /auth/register that can be in progress together
MaxRegistrations == 3

\* a registration request that has not arrived
NoRegistration ==
    [pc |-> "idle", email |-> "", name |-> "", existing_user |-> 0,
     code |-> 0, detail |-> "", id |-> 0]

\* the application after start-up: empty collections, empty bucket
Started ==
    /\ db_users = <<>>
    /\ registrations = [r \in 1..MaxRegistrations |-> NoRegistration]
    /\ ml_pipeline = MLPipeline
    /\ db_images = <<>>
    /\ db_comparisons = <<>>
    /\ s3_objects = NoObjects
    /\ request = NoRequest
    /\ response = NoResponse

\* the state before any call
Idle ==
    /\ IdleFrame
    /\ heap = <<>>
    /\ oracle = NoOracle
    /\ suspended = NoFrame
    /\ Started

InitParams ==
    /\ op = "generate_enhancement_params"
    /\ Idle

\* one call generate_enhancement_params(diff, level)
GenerateParams ==
    /\ pc = "idle"
    /\ \E d \in DiffDicts, l \in ComparisonRequestLevels :
          /\ quality_diff' = d
          /\ enhancement_level' = l
          /\ params' = generate_enhancement_params(d, l)
    /\ pc' = "done"
    /\ UNCHANGED <<op, heap, image1, image2, oracle, comparison, target_image,
                   enhanced, stages, result>>
    /\ UNCHANGED <<enhanced_owner, outside>>

NextParams == GenerateParams

SpecParams == InitParams /\ [][NextParams]_vars

(***************************************************************************)
(* assess_quality called on one grid                                       *)
(***************************************************************************)
Uint8Tiles == {<<1280>>, <<100, 2000>>}
FloatTiles == {<<1285>>, <<-50, 3007>>}

Shapes2 == {<<h, w>> : h \in 0..MaxDim, w \in 0..MaxDim}
Shapes3 == {<<h, w, c>> : h \in {0, 1, 7, MaxDim}, w \in {0, 1, 7, MaxDim},
                          c \in 1..MaxChannels}

GridsOf(shapes) ==
    {[shape |-> sh, dtype |-> "uint8", px |-> t, ops |-> <<>>] :
        sh \in shapes, t \in Uint8Tiles}
    \cup {[shape |-> sh, dtype |-> "float32", px |-> t, ops |-> <<>>] :
        sh \in shapes, t \in FloatTiles}

AssessGrids == GridsOf(Shapes2 \cup Shapes3) \cup {None}

\* values the floating point features can take
FeatureSamples ==
    [sharpness : {0, 600, 1000}, contrast : {0, 300}, noise : {0, 900},
     niqe : {400, 1000, 2000}]

\* the noise residual is computed only when both crops are non-empty
NoiseMeasured(g) ==
    LET gray == GrayShape(g.shape)
    IN  gray.err = "" /\ gray.shape[1] > 8 /\ gray.shape[2] > 8

\* a grid of one intensity: its Laplacian, its standard deviation and its
\* smoothing residual are zero
Flat(g) == Plain(g) /\ (Len(g.px) = 1 \/ g.shape[1] * g.shape[2] = 1)

\* the features the library functions can give for an 8-bit grid
FeaturesOf(g) ==
    IF Flat(g)
    THEN {[sharpness |-> 0, contrast |-> 0,
           noise |-> IF NoiseMeasured(g) THEN 1000 ELSE 0, niqe |-> n] :
             n \in {f.niqe : f \in FeatureSamples}}
    ELSE {f \in FeatureSamples : ~NoiseMeasured(g) => f.noise = 0}

NoFeatures == [sharpness |-> 0, contrast |-> 0, noise |-> 0, niqe |-> 0]

\* the library functions are deterministic: a grid measured before has the
\* same features again
Candidates(g) ==
    IF IsNone(g) \/ Size(g) = 0 THEN {NoFeatures}
    ELSE IF Measured(g) \in DOMAIN oracle THEN {oracle[Measured(g)]}
    ELSE FeaturesOf(Measured(g))

Remember(g, f, r) ==
    IF IsNone(g) \/ Size(g) = 0 \/ r.status # "ok" THEN oracle
    ELSE (Measured(g) :> f) @@ oracle

InitAssess ==
    /\ op = "assess_quality"
    /\ Idle

\* one call assess_quality(image)
AssessQuality ==
    /\ pc = "idle"
    /\ \E g \in AssessGrids :
         \E f \in Candidates(g) :
            /\ heap' = <<g>>
            /\ oracle' = Remember(g, f, assess_quality(g, f))
            /\ result' = assess_quality(g, f)
    /\ image1' = 1
    /\ pc' = IF result'.status = "ok" THEN "done" ELSE "raised"
    /\ UNCHANGED <<op, image2, enhancement_level, comparison, target_image,
                   quality_diff, params, enhanced, stages>>
    /\ UNCHANGED <<enhanced_owner, outside>>

NextAssess == AssessQuality

SpecAssess == InitAssess /\ [][NextAssess]_vars

(***************************************************************************)
(* compare_images, enhance_image and process_images, called on the grids   *)
(* the caller holds.  An argument is a reference into heap; the same       *)
(* object may be passed twice.                                             *)
(***************************************************************************)
Grid(shape, dtype, px) == [shape |-> shape, dtype |-> dtype, px |-> px, ops |-> <<>>]

PipelineGrids ==
    {Grid(<<7, 7>>, "uint8", <<100, 2000>>),
     Grid(<<7, 7, 3>>, "uint8", <<100, 2000>>),
     Grid(<<1, 1>>, "uint8", <<1280>>),
     Grid(<<4, 7>>, "float32", <<-50, 3007>>),
     Grid(<<MaxDim, MaxDim>>, "uint8", <<100, 2000>>),
     Grid(<<0, 0>>, "uint8", <<1280>>),
     None}

PipelineLevels == {0, 5, 10}

EnhanceGrids ==
    {Grid(<<1, 2>>, "uint8", <<100, 2000>>),
     Grid(<<1, 2>>, "float32", <<1285, 79>>),
     Grid(<<2, 2, 3>>, "uint8", <<100, 2000>>),
     Grid(<<1, 2>>, "float32", <<-50, 3007>>)}

\* absent effect, 0.01 itself, 0.3
ParamSamples == {0, 100, 3000}

ParamDicts == UNION {[S -> ParamSamples] : S \in SUBSET ParamKeys}

\* a is b
Is(a, b) == a = b \/ (IsNone(heap[a]) /\ IsNone(heap[b]))

Init ==
    /\ op = "none"
    /\ Idle

\* a caller invokes compare_images(image1, image2)
\* or process_images(image1, image2, enhancement_level)
CallPipeline ==
    /\ pc = "idle"
    /\ op' \in {"compare_images", "process_images"}
    /\ \E g1 \in PipelineGrids, g2 \in PipelineGrids, second \in {1, 2} :
          /\ second = 1 => g2 = g1
          /\ heap' = <<g1, g2>>
          /\ image2' = second
    /\ image1' = 1
    /\ enhancement_level' \in PipelineLevels
    /\ pc' = "assess1"
    /\ UNCHANGED <<oracle, comparison, target_image, quality_diff, params,
                   enhanced, stages, result>>
    /\ UNCHANGED <<enhanced_owner, outside>>

\* a caller invokes enhance_image(image, enhancement_params)
CallEnhance ==
    /\ pc = "idle"
    /\ op' = "enhance_image"
    /\ \E g \in EnhanceGrids : heap' = <<g>>
    /\ image1' = 1
    /\ target_image' = 1
    /\ params' \in ParamDicts
    /\ pc' = "copy"
    /\ UNCHANGED <<image2, enhancement_level, oracle, comparison, quality_diff,
                   enhanced, stages, result>>
    /\ UNCHANGED <<enhanced_owner, outside>>

RaisedResult(e) == [status |-> "raised", error |-> e]

\* metrics1 = await self.assess_quality(image1)
Assess1 ==
    /\ pc = "assess1"
    /\ \E f \in Candidates(heap[image1]) :
         LET r == assess_quality(heap[image1], f)
         IN  /\ oracle' = Remember(heap[image1], f, r)
             /\ IF r.status = "ok"
                THEN /\ comparison' = [comparison EXCEPT !.image1_metrics = r.metrics]
                     /\ pc' = "assess2"
                     /\ UNCHANGED result
                ELSE /\ result' = RaisedResult(r.error)
                     /\ pc' = "raised"
                     /\ UNCHANGED comparison
    /\ UNCHANGED <<op, heap, image1, image2, enhancement_level, target_image,
                   quality_diff, params, enhanced, stages>>
    /\ UNCHANGED <<enhanced_owner, outside>>

\* metrics2 = await self.assess_quality(image2)
Assess2 ==
    /\ pc = "assess2"
    /\ \E f \in Candidates(heap[image2]) :
         LET r == assess_quality(heap[image2], f)
         IN  /\ oracle' = Remember(heap[image2], f, r)
             /\ IF r.status = "ok"
                THEN /\ comparison' = [comparison EXCEPT !.image2_metrics = r.metrics]
                     /\ pc' = "differences"
                     /\ UNCHANGED result
                ELSE /\ result' = RaisedResult(r.error)
                     /\ pc' = "raised"
                     /\ UNCHANGED comparison
    /\ UNCHANGED <<op, heap, image1, image2, enhancement_level, target_image,
                   quality_diff, params, enhanced, stages>>
    /\ UNCHANGED <<enhanced_owner, outside>>

\* the verdict with >= : a tie goes to the second image
Verdict_tie_second(metrics1, metrics2) ==
    IF metrics2["overall_score"] >= metrics1["overall_score"]
    THEN "image2_better" ELSE "image1_better"

\* "image2_better" if metrics2["overall_score"] > metrics1["overall_score"]
Verdict(metrics1, metrics2) ==
    IF metrics2["overall_score"] > metrics1["overall_score"]
    THEN "image2_better" ELSE "image1_better"

\* differences[key] = metrics2[key] - metrics1[key]
Differences(metrics1, metrics2) ==
    [key \in DOMAIN metrics1 |-> metrics2[key] - metrics1[key]]

\* the rest of compare_images: the differences and the verdict
CompareReturn ==
    /\ pc = "differences"
    /\ comparison' = [comparison EXCEPT
          !.differences = Differences(comparison.image1_metrics,
                                      comparison.image2_metrics),
          !.comparison = Verdict(comparison.image1_metrics,
                                 comparison.image2_metrics)]
    /\ IF op = "compare_images"
       THEN /\ pc' = "done"
            /\ result' = [status |-> "ok", error |-> ""]
       ELSE /\ pc' = "select"
            /\ UNCHANGED result
    /\ UNCHANGED <<op, heap, image1, image2, enhancement_level, oracle,
                   target_image, quality_diff, params, enhanced, stages>>
    /\ UNCHANGED <<enhanced_owner, outside>>

\* the higher-scoring image taken as target
SelectTarget_higher(cmp) ==
    IF cmp.image2_metrics["overall_score"] > cmp.image1_metrics["overall_score"]
    THEN [target |-> image2,
          diff |-> [k \in DOMAIN cmp.image1_metrics |->
                      cmp.image2_metrics[k] - cmp.image1_metrics[k]]]
    ELSE [target |-> image1,
          diff |-> [k \in DOMAIN cmp.image2_metrics |->
                      cmp.image1_metrics[k] - cmp.image2_metrics[k]]]

\* the comparison with >= : on a tie the first image is the target
SelectTarget_tie_first(cmp) ==
    IF cmp.image2_metrics["overall_score"] >= cmp.image1_metrics["overall_score"]
    THEN [target |-> image1,
          diff |-> [k \in DOMAIN cmp.image1_metrics |->
                      cmp.image2_metrics[k] - cmp.image1_metrics[k]]]
    ELSE [target |-> image2,
          diff |-> [k \in DOMAIN cmp.image2_metrics |->
                      cmp.image1_metrics[k] - cmp.image2_metrics[k]]]

\* the diff taken as target minus other
SelectTarget_diff_reversed(cmp) ==
    IF cmp.image2_metrics["overall_score"] > cmp.image1_metrics["overall_score"]
    THEN [target |-> image1,
          diff |-> [k \in DOMAIN cmp.image1_metrics |->
                      cmp.image1_metrics[k] - cmp.image2_metrics[k]]]
    ELSE [target |-> image2,
          diff |-> [k \in DOMAIN cmp.image2_metrics |->
                      cmp.image2_metrics[k] - cmp.image1_metrics[k]]]

\* process_images: "Determine which image to enhance"
SelectTarget(cmp) ==
    IF cmp.image2_metrics["overall_score"] > cmp.image1_metrics["overall_score"]
    THEN [target |-> image1,
          diff |-> [k \in DOMAIN cmp.image1_metrics |->
                      cmp.image2_metrics[k] - cmp.image1_metrics[k]]]
    ELSE [target |-> image2,
          diff |-> [k \in DOMAIN cmp.image2_metrics |->
                      cmp.image1_metrics[k] - cmp.image2_metrics[k]]]

DetermineTarget ==
    /\ pc = "select"
    /\ target_image' = SelectTarget(comparison).target
    /\ quality_diff' = SelectTarget(comparison).diff
    /\ pc' = "generate"
    /\ UNCHANGED <<op, heap, image1, image2, enhancement_level, oracle,
                   comparison, params, enhanced, stages, result>>
    /\ UNCHANGED <<enhanced_owner, outside>>

\* enhancement_params = await self.enhancement.generate_enhancement_params(...)
GenerateStep ==
    /\ pc = "generate"
    /\ params' = generate_enhancement_params(quality_diff, enhancement_level)
    /\ pc' = "copy"
    /\ UNCHANGED <<op, heap, image1, image2, enhancement_level, oracle,
                   comparison, target_image, quality_diff, enhanced, stages,
                   result>>
    /\ UNCHANGED <<enhanced_owner, outside>>

\* the position after a stage
After(name) ==
    IF StageIndex(name) < Len(StageOrder) THEN StageOrder[StageIndex(name) + 1]
    ELSE "enhanced"

Ran(name, output) == Append(stages, [name |-> name, input |-> enhanced, output |-> output])

\* enhanced = image.copy().astype(np.float32)
EnhanceCopy ==
    /\ pc = "copy"
    /\ IF IsNone(heap[target_image])
       THEN /\ result' = RaisedResult("AttributeError")
            /\ pc' = "raised"
            /\ UNCHANGED <<enhanced, enhanced_owner, stages>>
       ELSE /\ enhanced' = copy_float(heap[target_image])
            /\ enhanced_owner' = copy_owner(target_image)
            /\ stages' = <<>>
            /\ pc' = StageOrder[1]
            /\ UNCHANGED result
    /\ UNCHANGED <<op, heap, image1, image2, enhancement_level, oracle,
                   comparison, target_image, quality_diff, params>>
    /\ UNCHANGED outside

\* the brightness stage with >= : a parameter of exactly 0.01 runs it
Brightness_at_threshold ==
    /\ pc = "brightness"
    /\ IF Get(params, "brightness", 0) >= SkipThreshold
       THEN /\ enhanced' = brightness_stage(enhanced, params["brightness"])
            /\ stages' = Ran("brightness", enhanced')
            /\ enhanced_owner' = 0
       ELSE UNCHANGED <<enhanced, enhanced_owner, stages>>
    /\ pc' = After("brightness")
    /\ UNCHANGED <<op, heap, image1, image2, enhancement_level, oracle,
                   comparison, target_image, quality_diff, params, result>>
    /\ UNCHANGED outside

\* if enhancement_params.get("brightness", 0) > 0.01
Brightness ==
    /\ pc = "brightness"
    /\ IF Get(params, "brightness", 0) > SkipThreshold
       THEN /\ enhanced' = brightness_stage(enhanced, params["brightness"])
            /\ stages' = Ran("brightness", enhanced')
            /\ enhanced_owner' = 0
       ELSE UNCHANGED <<enhanced, enhanced_owner, stages>>
    /\ pc' = After("brightness")
    /\ UNCHANGED <<op, heap, image1, image2, enhancement_level, oracle,
                   comparison, target_image, quality_diff, params, result>>
    /\ UNCHANGED outside

\* cv2.bilateralFilter takes 1 or 3 channels
BilateralAccepts(g) == Ndim(g) = 2 \/ g.shape[3] \in {1, 3}

\* if enhancement_params.get("denoise", 0) > 0.01
Denoise ==
    /\ pc = "denoise"
    /\ IF Get(params, "denoise", 0) > SkipThreshold
       THEN IF BilateralAccepts(enhanced)
            THEN /\ \E u8 \in astype_uint8(enhanced) :
                       enhanced' = denoise_stage(u8, params["denoise"])
                 /\ stages' = Ran("denoise", enhanced')
                 /\ enhanced_owner' = 0
                 /\ pc' = After("denoise")
                 /\ UNCHANGED result
            ELSE /\ result' = RaisedResult("cv2.error")
                 /\ pc' = "raised"
                 /\ UNCHANGED <<enhanced, enhanced_owner, stages>>
       ELSE /\ pc' = After("denoise")
            /\ UNCHANGED <<enhanced, enhanced_owner, stages, result>>
    /\ UNCHANGED <<op, heap, image1, image2, enhancement_level, oracle,
                   comparison, target_image, quality_diff, params>>
    /\ UNCHANGED outside

\* if enhancement_params.get("contrast", 0) > 0.01
Contrast ==
    /\ pc = "contrast"
    /\ IF Get(params, "contrast", 0) > SkipThreshold
       THEN /\ enhanced' = contrast_stage(enhanced, params["contrast"])
            /\ stages' = Ran("contrast", enhanced')
            /\ enhanced_owner' = 0
       ELSE UNCHANGED <<enhanced, enhanced_owner, stages>>
    /\ pc' = After("contrast")
    /\ UNCHANGED <<op, heap, image1, image2, enhancement_level, oracle,
                   comparison, target_image, quality_diff, params, result>>
    /\ UNCHANGED outside

\* if enhancement_params.get("sharpness", 0) > 0.01
Sharpen ==
    /\ pc = "sharpen"
    /\ IF Get(params, "sharpness", 0) > SkipThreshold
       THEN /\ enhanced' = sharpen_stage(enhanced, params["sharpness"])
            /\ stages' = Ran("sharpen", enhanced')
            /\ IF Ndim(enhanced) = 3
               THEN \* enhanced[:, :, i] = ... writes the buffer in place
                    /\ enhanced_owner' = enhanced_owner
                    /\ heap' = IF enhanced_owner = 0 THEN heap
                               ELSE [heap EXCEPT ![enhanced_owner] = enhanced']
               ELSE \* enhanced = np.clip(...) is a new array
                    /\ enhanced_owner' = 0
                    /\ UNCHANGED heap
       ELSE UNCHANGED <<enhanced, enhanced_owner, stages, heap>>
    /\ pc' = After("sharpen")
    /\ UNCHANGED <<op, image1, image2, enhancement_level, oracle,
                   comparison, target_image, quality_diff, params, result>>
    /\ UNCHANGED outside

\* cv2.cvtColor(enhanced_uint, cv2.COLOR_BGR2HSV) takes 3 or 4 channels and
\* gives 3
HsvAccepts(g) == g.shape[3] \in {3, 4}

\* if enhancement_params.get("color", 0) > 0.01 and len(enhanced.shape) == 3
Color ==
    /\ pc = "color"
    /\ IF Get(params, "color", 0) > SkipThreshold /\ Ndim(enhanced) = 3
       THEN IF HsvAccepts(enhanced)
            THEN /\ \E u8 \in astype_uint8(enhanced) :
                       enhanced' = [color_stage(u8, params["color"])
                                       EXCEPT !.shape[3] = 3]
                 /\ stages' = Ran("color", enhanced')
                 /\ enhanced_owner' = 0
                 /\ pc' = After("color")
                 /\ UNCHANGED result
            ELSE /\ result' = RaisedResult("cv2.error")
                 /\ pc' = "raised"
                 /\ UNCHANGED <<enhanced, enhanced_owner, stages>>
       ELSE /\ pc' = After("color")
            /\ UNCHANGED <<enhanced, enhanced_owner, stages, result>>
    /\ UNCHANGED <<op, heap, image1, image2, enhancement_level, oracle,
                   comparison, target_image, quality_diff, params>>
    /\ UNCHANGED outside

\* enhanced = np.clip(enhanced, 0, 255).astype(np.uint8); return enhanced
FinalClip ==
    /\ pc = "final"
    /\ enhanced' = final_stage(enhanced)
    /\ stages' = Ran("final", enhanced')
    /\ enhanced_owner' = 0
    /\ IF op = "enhance_image" /\ After("final") = "enhanced"
       THEN /\ pc' = "done"
            /\ result' = [status |-> "ok", error |-> "", enhanced_image |-> enhanced']
       ELSE /\ pc' = After("final")
            /\ UNCHANGED result
    /\ UNCHANGED <<op, heap, image1, image2, enhancement_level, oracle,
                   comparison, target_image, quality_diff, params>>
    /\ UNCHANGED outside

\* improvements with the first image's metrics whatever the target
Improvements_always_first(enhanced_metrics, cmp, target) ==
    [k \in DOMAIN enhanced_metrics |-> enhanced_metrics[k] - cmp.image1_metrics[k]]

\* k: enhanced_metrics[k] - (image1_metrics[k] if target_image is image1
\*                           else image2_metrics[k])
Improvements(enhanced_metrics, cmp, target) ==
    [k \in DOMAIN enhanced_metrics |->
        enhanced_metrics[k] - (IF Is(target, image1) THEN cmp.image1_metrics[k]
                               ELSE cmp.image2_metrics[k])]

\* enhanced_metrics = await self.quality_model.assess_quality(enhanced_image)
\* and the result dict
AssessEnhanced ==
    /\ pc = "enhanced"
    /\ \E f \in Candidates(enhanced) :
         LET r == assess_quality(enhanced, f)
         IN  /\ oracle' = Remember(enhanced, f, r)
             /\ IF r.status = "ok"
                THEN /\ result' =
                          [status |-> "ok", error |-> "",
                           image1_metrics |-> comparison.image1_metrics,
                           image2_metrics |-> comparison.image2_metrics,
                           enhanced_metrics |-> r.metrics,
                           enhancement_params |-> params,
                           improvements |-> Improvements(r.metrics, comparison,
                                                         target_image),
                           enhanced_image |-> enhanced]
                     /\ pc' = "done"
                ELSE /\ result' = RaisedResult(r.error)
                     /\ pc' = "raised"
    /\ UNCHANGED <<op, heap, image1, image2, enhancement_level, comparison,
                   target_image, quality_diff, params, enhanced, stages>>
    /\ UNCHANGED <<enhanced_owner, outside>>

Next ==
    \/ CallPipeline
    \/ CallEnhance
    \/ Assess1
    \/ Assess2
    \/ CompareReturn
    \/ DetermineTarget
    \/ GenerateStep
    \/ EnhanceCopy
    \/ Brightness
    \/ Denoise
    \/ Contrast
    \/ Sharpen
    \/ Color
    \/ FinalClip
    \/ AssessEnhanced

Spec == Init /\ [][Next]_vars

(***************************************************************************)
(* The image routes of backend/app/routes/images.py with the bucket of     *)
(* S3Service and the collections of ImageService and ComparisonService.    *)
(* A URL or an object key is the sequence of its path segments.            *)
(***************************************************************************)
\* documents inserted into the images collection
MaxUploads == 2

Users == {"u1", "u2"}
FileNames == {"a.png", "b.png"}

\* uploaded bytes: two encoded pictures and bytes that are no picture
FileContents == {"flat7x7", "photo10x10", "garbage"}

\* cv2.imdecode(nparr, cv2.IMREAD_COLOR): a 3-channel 8-bit grid, or None
imdecode(bytes) ==
    CASE bytes = "flat7x7" -> Grid(<<7, 7, 3>>, "uint8", <<1280>>)
      [] bytes = "photo10x10" -> Grid(<<MaxDim, MaxDim, 3>>, "uint8", <<100, 2000>>)
      [] OTHER -> None

\* object_key = f"uploads/{user_id}/{file_name}"
ObjectKey(user_id, file_name) == <<"uploads", user_id, file_name>>

\* url = f"https://{bucket}.s3.{region}.amazonaws.com/{object_key}"
Url(object_key) == <<"https://bucket.s3.region.amazonaws.com">> \o object_key

\* url.split(f"{sep}/")[1]: what follows the first segment equal to sep, up
\* to the next one; IndexError when no segment matches.  A part that was cut
\* at a later match keeps its trailing "/" as an empty last segment.
SplitSecond(url, sep) ==
    LET hits == {i \in 1..(Len(url) - 1) : url[i] = sep}
        first == CHOOSE i \in hits : \A j \in hits : i <= j
        later == {i \in hits : i > first}
        next == CHOOSE i \in later : \A j \in later : i <= j
    IN  IF hits = {} THEN [err |-> "IndexError", part |-> <<>>]
        ELSE IF later = {}
             THEN [err |-> "", part |-> SubSeq(url, first + 1, Len(url))]
             ELSE [err |-> "", part |-> SubSeq(url, first + 1, next - 1) \o <<"">>]

\* s3_client.put_object(Key=object_key, Body=file_content)
put_object(object_key, file_content) == (object_key :> file_content) @@ s3_objects

\* s3_client.delete_object(Key=object_key): no error for a missing key
delete_object(object_key) ==
    [k \in DOMAIN s3_objects \ {object_key} |-> s3_objects[k]]

\* a document that was deleted, and the None of find_one
NoDocument == [id |-> 0, user_id |-> "", name |-> "", s3_url |-> <<>>]

\* ImageService.get_image: collection.find_one({"_id": ObjectId(image_id)})
get_image(image_id) ==
    IF image_id \in DOMAIN db_images THEN db_images[image_id] ELSE NoDocument

RouteResponse(route, code, detail, id) ==
    [route |-> route, code |-> code, detail |-> detail, id |-> id]

\* the frame of the running call
frame == <<pc, op, image1, image2, enhancement_level, comparison, target_image,
           quality_diff, params, enhanced, enhanced_owner, stages, result>>

InitRoutes ==
    /\ op = "none"
    /\ Idle

\* POST /images/upload
UploadImage ==
    /\ pc = "idle"
    /\ request = NoRequest
    /\ \E current_user \in Users, filename \in FileNames,
          file_content \in FileContents :
          IF IsNone(imdecode(file_content))
          THEN /\ response' = RouteResponse("upload", 400, "Invalid image file", 0)
               /\ UNCHANGED <<s3_objects, db_images>>
          ELSE /\ Len(db_images) < MaxUploads
               /\ s3_objects' = put_object(ObjectKey(current_user, filename),
                                           file_content)
               /\ db_images' = Append(db_images,
                     [id |-> Len(db_images) + 1, user_id |-> current_user,
                      name |-> filename,
                      s3_url |-> Url(ObjectKey(current_user, filename))])
               /\ response' = RouteResponse("upload", 200,
                                  "Image uploaded successfully",
                                  Len(db_images) + 1)
    /\ UNCHANGED <<frame, heap, oracle, ml_pipeline, suspended, db_comparisons,
                   request, accounts>>

\* DELETE /images/{image_id}
DeleteImage ==
    /\ pc = "idle"
    /\ request = NoRequest
    /\ \E current_user \in Users, image_id \in 1..MaxUploads :
          LET image == get_image(image_id)
              s3_key == SplitSecond(image.s3_url, image.user_id)
          IN  IF image.id = 0 \/ image.user_id # current_user
              THEN /\ response' = RouteResponse("delete", 404, "Image not found", 0)
                   /\ UNCHANGED <<s3_objects, db_images>>
              ELSE IF s3_key.err # ""
              THEN /\ response' = RouteResponse("delete", 500, s3_key.err, 0)
                   /\ UNCHANGED <<s3_objects, db_images>>
              ELSE /\ s3_objects' = delete_object(<<"uploads", current_user>>
                                                    \o s3_key.part)
                   /\ db_images' = [db_images EXCEPT ![image_id] = NoDocument]
                   /\ response' = RouteResponse("delete", 200,
                                      "Image deleted successfully", image_id)
    /\ UNCHANGED <<frame, heap, oracle, ml_pipeline, suspended, db_comparisons,
                   request, accounts>>

\* request.enhancement_level of the requests sent
RequestLevels == {5}

\* POST /images/compare up to the call of ml_pipeline.process_images
CompareImages ==
    /\ pc = "idle"
    /\ request = NoRequest
    /\ \E current_user \in Users, image1_id \in 1..MaxUploads,
          image2_id \in 1..MaxUploads, level \in RequestLevels :
          LET first == get_image(image1_id)
              second == get_image(image2_id)
              key1 == SplitSecond(first.s3_url, current_user)
              key2 == SplitSecond(second.s3_url, current_user)
              object1 == <<"uploads", current_user>> \o key1.part
              object2 == <<"uploads", current_user>> \o key2.part
              refused(code, detail) ==
                  /\ response' = RouteResponse("compare", code, detail, 0)
                  /\ UNCHANGED <<frame, heap, request>>
          IN  IF first.id = 0 \/ first.user_id # current_user
              THEN refused(404, "Image 1 not found")
              ELSE IF second.id = 0 \/ second.user_id # current_user
              THEN refused(404, "Image 2 not found")
              ELSE IF key1.err # "" \/ key2.err # ""
              THEN refused(500, "IndexError")
              ELSE IF object1 \notin DOMAIN s3_objects
                      \/ object2 \notin DOMAIN s3_objects
              THEN refused(500, "Error downloading from S3")
              ELSE /\ heap' = <<imdecode(s3_objects[object1]),
                                imdecode(s3_objects[object2])>>
                   /\ image1' = 1
                   /\ image2' = 2
                   /\ enhancement_level' = level
                   /\ op' = "process_images"
                   /\ pc' = "assess1"
                   /\ request' = [route |-> "compare", user_id |-> current_user,
                                  image1_id |-> image1_id,
                                  image2_id |-> image2_id]
                   /\ response' = NoResponse
                   /\ UNCHANGED <<comparison, target_image, quality_diff, params,
                                  enhanced, enhanced_owner, stages, result>>
    /\ UNCHANGED <<oracle, ml_pipeline, suspended, db_images, db_comparisons,
                   s3_objects, accounts>>

\* the keys of the dict process_images returns
ProcessResultKeys(r) == (DOMAIN r \ {"status", "error"}) \cup {"processing_time"}

\* the keys the route reads from it
RouteResultKeys == {"quality_metrics", "enhancements", "processing_time"}

\* POST /images/compare from the return of process_images: the comparison is
\* saved and returned, any exception becomes a 500
CompareImagesRespond ==
    /\ request # NoRequest
    /\ pc \in {"done", "raised"}
    /\ IF pc = "raised"
       THEN /\ response' = RouteResponse("compare", 500, result.error, 0)
            /\ UNCHANGED db_comparisons
       ELSE IF ~(RouteResultKeys \subseteq ProcessResultKeys(result))
       THEN /\ response' = RouteResponse("compare", 500, "KeyError", 0)
            /\ UNCHANGED db_comparisons
       ELSE /\ db_comparisons' = Append(db_comparisons,
                  [id |-> Len(db_comparisons) + 1,
                   user_id |-> request.user_id,
                   image1_id |-> request.image1_id,
                   image2_id |-> request.image2_id,
                   quality_metrics |-> Get(result, "quality_metrics", NoDiff),
                   enhancements |-> Get(result, "enhancements", NoDiff)])
            /\ response' = RouteResponse("compare", 200, "",
                                         Len(db_comparisons) + 1)
    /\ request' = NoRequest
    /\ heap' = <<>>
    /\ op' = "none"
    /\ pc' = "idle"
    /\ image1' = 0
    /\ image2' = 0
    /\ enhancement_level' = 5
    /\ comparison' = NoComparison
    /\ target_image' = 0
    /\ quality_diff' = NoDiff
    /\ params' = ZeroParams
    /\ enhanced' = None
    /\ enhanced_owner' = 0
    /\ stages' = <<>>
    /\ result' = NoResult
    /\ UNCHANGED <<oracle, ml_pipeline, suspended, db_images, s3_objects,
                   accounts>>

NextRoutes ==
    \/ UploadImage
    \/ DeleteImage
    \/ CompareImages
    \/ CompareImagesRespond
    \/ Assess1
    \/ Assess2
    \/ CompareReturn
    \/ DetermineTarget
    \/ GenerateStep
    \/ EnhanceCopy
    \/ Brightness
    \/ Denoise
    \/ Contrast
    \/ Sharpen
    \/ Color
    \/ FinalClip
    \/ AssessEnhanced

SpecRoutes == InitRoutes /\ [][NextRoutes]_vars

(***************************************************************************)
(* Two invocations in progress on the one ml_pipeline instance, over the   *)
(* same grid objects.  Each invocation has a frame of its own (the locals  *)
(* of its coroutines); the variables pc .. result hold the frame of the    *)
(* invocation that is running and suspended holds the other one.  The      *)
(* grids in heap, the attributes of ml_pipeline and the library functions  *)
(* are what the two share.                                                 *)
(***************************************************************************)
\* the frame of the running invocation, as a value
Frame ==
    [pc |-> pc, op |-> op, image1 |-> image1, image2 |-> image2,
     enhancement_level |-> enhancement_level, comparison |-> comparison,
     target_image |-> target_image, quality_diff |-> quality_diff,
     params |-> params, enhanced |-> enhanced,
     enhanced_owner |-> enhanced_owner, stages |-> stages, result |-> result]

\* the frame of an invocation that has not started
NewFrame ==
    [pc |-> "idle", op |-> "none", image1 |-> 0, image2 |-> 0,
     enhancement_level |-> 5, comparison |-> NoComparison,
     target_image |-> 0, quality_diff |-> NoDiff, params |-> ZeroParams,
     enhanced |-> None, enhanced_owner |-> 0, stages |-> <<>>,
     result |-> NoResult]

\* the two decoded pictures the callers hold
SharedGrids ==
    <<Grid(<<7, 7, 3>>, "uint8", <<100, 2000>>),
      Grid(<<7, 7, 3>>, "uint8", <<500, 600>>)>>

\* what the library functions give for them: the first is the sharper one
\* and has the lower overall score
SharedFeatures ==
    (SharedGrids[1] :> [sharpness |-> 600, contrast |-> 0, noise |-> 0,
                        niqe |-> 400])
    @@ (SharedGrids[2] :> [sharpness |-> 0, contrast |-> 300, noise |-> 0,
                           niqe |-> 1000])

SharedParams == {[sharpness |-> 3000, color |-> 3000]}
SharedDiffs == {[sharpness |-> -600, overall_score |-> 60]}

InitConcurrent ==
    /\ op = "none"
    /\ IdleFrame
    /\ heap = SharedGrids
    /\ oracle = SharedFeatures
    /\ suspended = NewFrame
    /\ Started

\* compare_images(image1, image2) or process_images(image1, image2, level)
\* is invoked on grids of the heap
InvokePipeline ==
    /\ pc = "idle"
    /\ op' \in {"compare_images", "process_images"}
    /\ image1' = 1
    /\ image2' = 2
    /\ enhancement_level' = 5
    /\ pc' = "assess1"
    /\ UNCHANGED <<heap, oracle, comparison, target_image, quality_diff, params,
                   enhanced, enhanced_owner, stages, result, outside>>

\* enhance_image(image, enhancement_params) is invoked on a grid of the heap
InvokeEnhance ==
    /\ pc = "idle"
    /\ op' = "enhance_image"
    /\ image1' \in DOMAIN heap
    /\ target_image' = image1'
    /\ params' \in SharedParams
    /\ pc' = "copy"
    /\ UNCHANGED <<heap, image2, enhancement_level, oracle, comparison,
                   quality_diff, enhanced, enhanced_owner, stages, result,
                   outside>>

\* assess_quality(image) is invoked on a grid of the heap
InvokeAssess ==
    /\ pc = "idle"
    /\ op' = "assess_quality"
    /\ image1' \in DOMAIN heap
    /\ \E f \in Candidates(heap[image1']) :
          /\ oracle' = Remember(heap[image1'], f, assess_quality(heap[image1'], f))
          /\ result' = assess_quality(heap[image1'], f)
    /\ pc' = IF result'.status = "ok" THEN "done" ELSE "raised"
    /\ UNCHANGED <<heap, image2, enhancement_level, comparison, target_image,
                   quality_diff, params, enhanced, enhanced_owner, stages,
                   outside>>

\* generate_enhancement_params(quality_diff, enhancement_level) is invoked
InvokeGenerate ==
    /\ pc = "idle"
    /\ op' = "generate_enhancement_params"
    /\ quality_diff' \in SharedDiffs
    /\ params' = generate_enhancement_params(quality_diff', enhancement_level)
    /\ pc' = "done"
    /\ UNCHANGED <<heap, image1, image2, enhancement_level, oracle, comparison,
                   target_image, enhanced, enhanced_owner, stages, result,
                   outside>>

\* the running invocation is suspended and the other one runs on
Switch ==
    /\ suspended.pc \notin {"done", "raised"}
    /\ suspended' = Frame
    /\ pc' = suspended.pc
    /\ op' = suspended.op
    /\ image1' = suspended.image1
    /\ image2' = suspended.image2
    /\ enhancement_level' = suspended.enhancement_level
    /\ comparison' = suspended.comparison
    /\ target_image' = suspended.target_image
    /\ quality_diff' = suspended.quality_diff
    /\ params' = suspended.params
    /\ enhanced' = suspended.enhanced
    /\ enhanced_owner' = suspended.enhanced_owner
    /\ stages' = suspended.stages
    /\ result' = suspended.result
    /\ UNCHANGED <<heap, oracle, ml_pipeline, db_images, db_comparisons,
                   s3_objects, request, response, accounts>>

NextConcurrent ==
    \/ InvokePipeline
    \/ InvokeEnhance
    \/ InvokeAssess
    \/ InvokeGenerate
    \/ Switch
    \/ Assess1
    \/ Assess2
    \/ CompareReturn
    \/ DetermineTarget
    \/ GenerateStep
    \/ EnhanceCopy
    \/ Brightness
    \/ Denoise
    \/ Contrast
    \/ Sharpen
    \/ Color
    \/ FinalClip
    \/ AssessEnhanced

SpecConcurrent == InitConcurrent /\ [][NextConcurrent]_vars

(***************************************************************************)
(* POST /auth/register of backend/app/routes/auth.py with                  *)
(* UserService.create_user.  Each request runs in a coroutine of its own;  *)
(* the event loop can run another request whenever one awaits the          *)
(* database (find_one, insert_one), and the database serves one operation  *)
(* at a time.                                                              *)
(***************************************************************************)
Emails == {"ann@example.com", "bob@example.com"}
Names == {"Ann", "Bob"}

AlreadyExists == "User with this email already exists"

\* collection.find_one({"email": email}): the id of the first document with
\* this email, 0 for None
find_one_email(email) ==
    LET found == {i \in DOMAIN db_users : db_users[i].email = email}
    IN  IF found = {} THEN 0 ELSE CHOOSE i \in found : \A j \in found : i <= j

\* the collection with no other request under way
InitRegister ==
    /\ op = "none"
    /\ Idle

\* a request arrives: register calls create_user, which awaits find_one
Register(r) ==
    /\ registrations[r].pc = "idle"
    /\ \E email \in Emails, name \in Names :
          registrations' = [registrations EXCEPT
              ![r] = [@ EXCEPT !.pc = "find_one", !.email = email,
                               !.name = name]]
    /\ UNCHANGED <<frame, heap, oracle, ml_pipeline, suspended, db_images,
                   db_comparisons, s3_objects, request, response, db_users>>

\* existing_user = await self.collection.find_one({"email": email}); with a
\* document found create_user raises ValueError and register answers 400,
\* otherwise the user is built and create_user awaits insert_one
FindOne(r) ==
    /\ registrations[r].pc = "find_one"
    /\ LET existing_user == find_one_email(registrations[r].email)
       IN  registrations' = [registrations EXCEPT
              ![r] = IF existing_user # 0
                     THEN [@ EXCEPT !.pc = "done",
                                    !.existing_user = existing_user,
                                    !.code = 400, !.detail = AlreadyExists]
                     ELSE [@ EXCEPT !.pc = "insert_one"]]
    /\ UNCHANGED <<frame, heap, oracle, ml_pipeline, suspended, db_images,
                   db_comparisons, s3_objects, request, response, db_users>>

\* result = await self.collection.insert_one(user.to_dict()); create_user
\* returns the new id and register answers with the tokens
InsertOne(r) ==
    /\ registrations[r].pc = "insert_one"
    /\ db_users' = Append(db_users,
          [id |-> Len(db_users) + 1, email |-> registrations[r].email,
           name |-> registrations[r].name])
    /\ registrations' = [registrations EXCEPT
          ![r] = [@ EXCEPT !.pc = "done", !.code = 200,
                           !.id = Len(db_users) + 1]]
    /\ UNCHANGED <<frame, heap, oracle, ml_pipeline, suspended, db_images,
                   db_comparisons, s3_objects, request, response>>

NextRegister ==
    \/ \E r \in 1..MaxRegistrations : Register(r)
    \/ \E r \in 1..MaxRegistrations : FindOne(r)
    \/ \E r \in 1..MaxRegistrations : InsertOne(r)

SpecRegister == InitRegister /\ [][NextRegister]_vars

(***************************************************************************)
(* Properties of generate_enhancement_params                               *)
(***************************************************************************)
\* the value a rule gives one field, from that field's own diff key only
RuleValue(d, key, threshold, value) ==
    IF key \in DOMAIN d /\ d[key] < threshold THEN value ELSE 0

\* C1: generate_enhancement_params applies a fixed threshold policy, each
\* field from its own diff key only: sharpness, contrast, denoise and color
\* are min(cap, |diff|/100*level) iff their key is strictly below -5,
\* brightness is 0.2*level iff overall_score is strictly below -10, every
\* unmatched field is 0.0.
C1_ThresholdPolicy ==
    pc = "done" =>
      /\ params.sharpness = RuleValue(quality_diff, "sharpness", -50,
             Min(8000, Abs(Get(quality_diff, "sharpness", 0)) * enhancement_level))
      /\ params.contrast = RuleValue(quality_diff, "contrast", -50,
             Min(6000, Abs(Get(quality_diff, "contrast", 0)) * enhancement_level))
      /\ params.denoise = RuleValue(quality_diff, "noise", -50,
             Min(7000, Abs(Get(quality_diff, "noise", 0)) * enhancement_level))
      /\ params.color = RuleValue(quality_diff, "natural", -50,
             Min(5000, Abs(Get(quality_diff, "natural", 0)) * enhancement_level))
      /\ params.brightness = RuleValue(quality_diff, "overall_score", -100,
             200 * enhancement_level)

\* the spec's example: diff {sharpness: -10, others 0}, level 0.5 gives
\* sharpness 0.05 and every other field 0.0
C1_Witness ==
    /\ pc = "done"
    /\ quality_diff = [sharpness |-> -100, contrast |-> 0, noise |-> 0,
                       natural |-> 0, overall_score |-> 0]
    /\ enhancement_level = 5
    /\ params = [sharpness |-> 500, contrast |-> 0, denoise |-> 0,
                 color |-> 0, brightness |-> 0]

InDiffRange(d) == \A k \in DOMAIN d : -1000 <= d[k] /\ d[k] <= 1000

\* C2: for every diff with components in [-100, 100] and every level a
\* comparison request can deliver, sharpness is in [0, 0.8], contrast in
\* [0, 0.6], denoise in [0, 0.7], color in [0, 0.5] and brightness in
\* [0, 0.2*level].
C2_ParamsWithinBounds ==
    (pc = "done" /\ InDiffRange(quality_diff)) =>
      /\ 0 <= params.sharpness /\ params.sharpness <= 8000
      /\ 0 <= params.contrast /\ params.contrast <= 6000
      /\ 0 <= params.denoise /\ params.denoise <= 7000
      /\ 0 <= params.color /\ params.color <= 5000
      /\ 0 <= params.brightness /\ params.brightness <= 200 * enhancement_level

(***************************************************************************)
(* Properties of assess_quality                                            *)
(***************************************************************************)
Finished == pc \in {"done", "raised"}

\* the grid a finished assess_quality call was given
Assessed == heap[image1]

\* the number of channels of a grid
Channels(g) == IF Ndim(g) = 2 THEN 1 ELSE g.shape[3]

\* a valid grid: width > 0, height > 0, 1 or 3 channels
ValidGrid(g) ==
    /\ ~IsNone(g)
    /\ g.shape[1] > 0 /\ g.shape[2] > 0
    /\ Ndim(g) = 2 \/ g.shape[3] \in {1, 3}

MetricsInRange(m) == \A k \in MetricKeys : 0 <= m[k] /\ m[k] <= 1000

\* C3: for any valid grid (width > 0, height > 0, 1 or 3 channels)
\* assess_quality completes without raising and returns the five metrics,
\* each within [0, 100].
C3_ValidGridAssessed ==
    (op = "assess_quality" /\ Finished /\ ValidGrid(Assessed)) =>
      /\ result.status = "ok"
      /\ MetricsInRange(result.metrics)

\* C4: for a null grid or a grid with zero elements assess_quality returns
\* all five metrics 0.0 and raises no error, whatever the grid's channel
\* count or dtype.
C4_DegenerateGridZero ==
    (op = "assess_quality" /\ Finished
       /\ (IsNone(Assessed) \/ Size(Assessed) = 0)) =>
      /\ result.status = "ok"
      /\ result.metrics = ZeroMetrics

\* a zero-area grid with an unsupported channel count was assessed
C4_Witness ==
    /\ op = "assess_quality" /\ pc = "done"
    /\ ~IsNone(Assessed) /\ Size(Assessed) = 0
    /\ Ndim(Assessed) = 3 /\ Assessed.shape[3] = 2
    /\ result.metrics = ZeroMetrics

\* C5: for a non-empty grid with an unsupported channel count (anything
\* other than 1 or 3) assess_quality returns all five metrics 0.0 rather than
\* failing.
C5_UnsupportedChannelsZero ==
    (op = "assess_quality" /\ Finished /\ ~IsNone(Assessed)
       /\ Size(Assessed) > 0 /\ Channels(Assessed) \notin {1, 3}) =>
      /\ result.status = "ok"
      /\ result.metrics = ZeroMetrics

(***************************************************************************)
(* Properties of compare_images and process_images                         *)
(***************************************************************************)
\* the metrics of a grid, from the features measured for it
MetricsOf(g) ==
    IF IsNone(g) \/ Size(g) = 0 THEN ZeroMetrics
    ELSE assess_quality(g, oracle[Measured(g)]).metrics

\* compare_images has returned (to its caller or into process_images)
Compared == comparison.comparison # ""

\* C6: compare_images(a, b) assesses both images and returns, for every
\* metric key k, differences[k] = metrics_b[k] - metrics_a[k]; the verdict is
\* image2_better iff b's overall score is strictly greater, image1_better
\* otherwise (also on a tie); comparing an image with itself gives zero
\* differences and image1_better.
C6_CompareImages ==
    Compared =>
      LET a == comparison.image1_metrics
          b == comparison.image2_metrics
      IN  /\ a = MetricsOf(heap[image1])
          /\ b = MetricsOf(heap[image2])
          /\ DOMAIN comparison.differences = MetricKeys
          /\ \A k \in MetricKeys : comparison.differences[k] = b[k] - a[k]
          /\ comparison.comparison =
               (IF b.overall_score > a.overall_score THEN "image2_better"
                ELSE "image1_better")
          /\ Measured(heap[image1]) = Measured(heap[image2]) =>
               /\ \A k \in MetricKeys : comparison.differences[k] = 0
               /\ comparison.comparison = "image1_better"

\* compare_images(A, A) has returned for an image that has metrics
C6_Witness ==
    /\ op = "compare_images" /\ pc = "done"
    /\ image1 = image2
    /\ comparison.image1_metrics.overall_score > 0
    /\ \A k \in MetricKeys : comparison.differences[k] = 0
    /\ comparison.comparison = "image1_better"

\* process_images has chosen its target
Selected == op = "process_images" /\ target_image # 0

Tie == comparison.image1_metrics.overall_score
         = comparison.image2_metrics.overall_score

\* the metrics compare_images returned for the target and for the other image
TargetMetrics ==
    IF target_image = image1 THEN comparison.image1_metrics
    ELSE comparison.image2_metrics
OtherMetrics ==
    IF target_image = image1 THEN comparison.image2_metrics
    ELSE comparison.image1_metrics

\* C7: when the two overall scores differ the target is the image with the
\* strictly lower overall score and the diff handed to
\* generate_enhancement_params is (higher-scoring metrics - target metrics)
\* for every key, so diff.overall_score > 0.
C7_TargetIsLower ==
    (Selected /\ ~Tie) =>
      /\ TargetMetrics.overall_score < OtherMetrics.overall_score
      /\ DOMAIN quality_diff = MetricKeys
      /\ \A k \in MetricKeys : quality_diff[k] = OtherMetrics[k] - TargetMetrics[k]
      /\ quality_diff.overall_score > 0

\* a finished run in which the second image scored lower and was enhanced
C7_Witness ==
    /\ Selected /\ pc = "done"
    /\ comparison.image2_metrics.overall_score
         < comparison.image1_metrics.overall_score
    /\ target_image = image2
    /\ quality_diff.sharpness < 0

\* C8: on equal overall scores the enhancement target is the first operand.
C8_TieTargetsFirst ==
    (Selected /\ Tie) => Is(target_image, image1)

\* C8 as amended: on equal overall scores the target is the second operand:
\* the enhanced image is derived from it and the improvements are measured
\* against its original metrics.
C8_TieTargetsSecond ==
    (Selected /\ Tie) =>
      /\ target_image = image2
      /\ stages # <<>> => stages[1].input = copy_float(heap[image2])
      /\ pc = "done" =>
           \A k \in MetricKeys :
              result.improvements[k] =
                 result.enhanced_metrics[k] - comparison.image2_metrics[k]

\* a finished run on two different grids with equal overall scores
C8_Witness ==
    /\ Selected /\ Tie /\ pc = "done"
    /\ image1 # image2
    /\ heap[image1] # heap[image2]
    /\ comparison.image1_metrics # comparison.image2_metrics
    /\ target_image = image2

\* C9: in every process_images result, for every metric key k,
\* improvements[k] = enhanced_metrics[k] - (the original metrics[k] of the
\* image chosen as target), also when both arguments are the same object.
C9_Improvements ==
    (op = "process_images" /\ pc = "done") =>
      /\ DOMAIN result.improvements = MetricKeys
      /\ \A k \in MetricKeys :
            result.improvements[k] =
               result.enhanced_metrics[k] - MetricsOf(heap[target_image])[k]
      /\ result.enhanced_metrics = MetricsOf(result.enhanced_image)

\* a finished run whose target was the second of two different images and
\* whose enhancement changed the metrics
C9_Witness ==
    /\ op = "process_images" /\ pc = "done"
    /\ target_image = image2 /\ image1 # image2
    /\ comparison.image1_metrics # comparison.image2_metrics
    /\ result.improvements.overall_score # 0

(***************************************************************************)
(* Properties of enhance_image                                             *)
(***************************************************************************)
Rank(name) ==
    CASE name = "brightness" -> 1
      [] name = "denoise" -> 2
      [] name = "contrast" -> 3
      [] name = "sharpen" -> 4
      [] name = "color" -> 5
      [] name = "final" -> 6

\* the stages the parameters enable for the grid being enhanced
EnabledStages ==
    {"final"}
    \cup (IF Get(params, "brightness", 0) > 100 THEN {"brightness"} ELSE {})
    \cup (IF Get(params, "denoise", 0) > 100 THEN {"denoise"} ELSE {})
    \cup (IF Get(params, "contrast", 0) > 100 THEN {"contrast"} ELSE {})
    \cup (IF Get(params, "sharpness", 0) > 100 THEN {"sharpen"} ELSE {})
    \cup (IF Get(params, "color", 0) > 100 /\ Ndim(heap[target_image]) = 3
          THEN {"color"} ELSE {})

StageParam(name) ==
    CASE name = "brightness" -> Get(params, "brightness", 0)
      [] name = "denoise" -> Get(params, "denoise", 0)
      [] name = "contrast" -> Get(params, "contrast", 0)
      [] name = "sharpen" -> Get(params, "sharpness", 0)
      [] name = "color" -> Get(params, "color", 0)

ParamStages == {"brightness", "denoise", "contrast", "sharpen", "color"}

C12_ZeroParamsIdentity ==
    (op = "enhance_image" /\ pc = "done"
       /\ \A k \in ParamKeys : Get(params, k, 0) = 0) =>
      LET in == heap[target_image]
          out == result.enhanced_image
      IN  /\ out.shape = in.shape
          /\ out.dtype = "uint8"
          /\ out.ops = <<>>
          /\ DOMAIN out.px = DOMAIN in.px
          /\ \A i \in DOMAIN in.px :
                out.px[i] = (IF in.px[i] < 0 THEN 0
                             ELSE IF in.px[i] > 2550 THEN 2550
                             ELSE in.px[i] - (in.px[i] % 10))
          /\ in.dtype = "uint8" => out = in

\* a float grid with intensities -5.0 and 300.7 came back as 0 and 255
C12_Witness ==
    /\ op = "enhance_image" /\ pc = "done"
    /\ params = ZeroParams
    /\ heap[target_image].dtype = "float32"
    /\ heap[target_image].px = <<-50, 3007>>
    /\ result.enhanced_image.px = <<0, 2550>>

\* a null or zero-area grid
Degenerate(g) == IsNone(g) \/ Size(g) = 0

\* process_images has gone through compare_images
ProcessCompared == op = "process_images" /\ Compared

\* C14: process_images raises no exception when either input is a
\* degenerate grid (null or zero-area): the degenerate image gets all-zero
\* metrics, and target selection, parameter generation, enhancement and
\* re-assessment accept it and a complete result is returned, also when the
\* degenerate image is the enhancement target.
C14_DegenerateInputCompletes ==
    (ProcessCompared /\ Finished
       /\ (Degenerate(heap[image1]) \/ Degenerate(heap[image2]))) =>
      /\ pc = "done"
      /\ result.status = "ok"
      /\ Degenerate(heap[image1]) => result.image1_metrics = ZeroMetrics
      /\ Degenerate(heap[image2]) => result.image2_metrics = ZeroMetrics
      /\ MetricsInRange(result.enhanced_metrics)

\* the grids the claim calls too small for the noise-estimation margins
TooSmallForNoise(g) ==
    LET h == g.shape[1]
        w == g.shape[2]
    IN  \/ CropLen(h, 2) < NoiseKernel
        \/ CropLen(w, 2) < NoiseKernel
        \/ CropLen(h, 4) = 0
        \/ CropLen(w, 4) = 0

\* C15: for any non-empty grid too small for the noise-estimation margins
\* (the 2px crop smaller than the 5x5 kernel in either dimension, or the 4px
\* crop empty) assess_quality sets noise to exactly 50.0 instead of failing.
C15_SmallGridNoiseFallback ==
    (op = "assess_quality" /\ Finished /\ ~IsNone(Assessed)
       /\ Size(Assessed) > 0 /\ TooSmallForNoise(Assessed)) =>
      /\ result.status = "ok"
      /\ result.metrics.noise = 500

\* the four metric / parameter pairs of generate_enhancement_params
MetricParam == [sharpness |-> "sharpness", contrast |-> "contrast",
                noise |-> "denoise", natural |-> "color"]

\* C17: process_images derives parameters that raise the lower-quality
\* target toward the other image: for level > 0, whenever the target's
\* sharpness (contrast, noise, natural) metric is more than 5 points below
\* the other image's, the derived sharpness (contrast, denoise, color)
\* parameter is > 0; and a parameter is 0 whenever the target is not worse
\* than the other image on that metric.
C17_ParamsRaiseTarget ==
    (Selected /\ pc # "generate" /\ enhancement_level > 0) =>
      \A m \in DOMAIN MetricParam :
         /\ OtherMetrics[m] - TargetMetrics[m] > 50 => params[MetricParam[m]] > 0
         /\ TargetMetrics[m] >= OtherMetrics[m] => params[MetricParam[m]] = 0

\* C19: in every process_images result enhancement_params.brightness is 0.0
\* for any inputs and any level: the diff handed to
\* generate_enhancement_params always has overall_score >= 0, so the
\* brightness rule (overall_score < -10) never matches and the brightness
\* stage never runs inside the pipeline.
C19_NoBrightnessInPipeline ==
    Selected =>
      /\ quality_diff.overall_score >= 0
      /\ pc # "generate" => params.brightness = 0
      /\ \A i \in DOMAIN stages : stages[i].name # "brightness"
      /\ pc = "done" => result.enhancement_params.brightness = 0

\* a pipeline run has returned for two images more than 10 points apart, at
\* a positive level, with some other parameter set and brightness 0
C19_Witness ==
    /\ op = "process_images" /\ pc = "done"
    /\ enhancement_level > 0
    /\ quality_diff.overall_score > 100
    /\ \E k \in ParamKeys : result.enhancement_params[k] > 0
    /\ result.enhancement_params.brightness = 0

\* C13: for process_images(A, B, level) with overall_score(B) >
\* overall_score(A) the target is A, and the enhanced image's overall_score
\* is greater than or equal to A's original overall_score
\* (improvements.overall_score >= 0).
C13_EnhancedNotWorse ==
    (op = "process_images" /\ pc = "done"
       /\ result.image2_metrics.overall_score
            > result.image1_metrics.overall_score) =>
      /\ target_image = image1
      /\ result.enhanced_metrics.overall_score
           >= result.image1_metrics.overall_score
      /\ result.improvements.overall_score >= 0

(***************************************************************************)
(* Properties of the image routes                                          *)
(***************************************************************************)
\* C18: when both images belong to the caller and process_images
\* completes, POST /images/compare stores exactly one comparison record
\* built from the pipeline result and returns it: every key the route reads
\* from the pipeline result is a key process_images returns, so the request
\* does not end in a 500 error after a successful pipeline run.
C18_CompareStoresRecord ==
    [][(request # NoRequest /\ pc = "done" /\ request' = NoRequest) =>
         /\ RouteResultKeys \subseteq ProcessResultKeys(result)
         /\ response'.code = 200
         /\ Len(db_comparisons') = Len(db_comparisons) + 1
         /\ db_comparisons'[Len(db_comparisons')].user_id = request.user_id
         /\ response'.id = db_comparisons'[Len(db_comparisons')].id]_vars

\* the object key an image document refers to: its URL without the host
ReferredKey(image) == SubSeq(image.s3_url, 2, Len(image.s3_url))

\* C20: after any sequence of successful POST /images/upload and DELETE
\* /images/{id} requests every image document still in the database refers
\* to a stored object that still exists, also when the same user uploaded
\* two files with the same file name.
C20_RecordsHaveObjects ==
    \A i \in DOMAIN db_images :
       db_images[i].id # 0 => ReferredKey(db_images[i]) \in DOMAIN s3_objects

(***************************************************************************)
(* Properties of concurrent invocations                                    *)
(***************************************************************************)
\* two frames hold the same call: same entry point, same arguments
SameCall(a, b) ==
    /\ a.op = b.op
    /\ a.op # "none"
    /\ a.image1 = b.image1
    /\ a.image2 = b.image2
    /\ a.enhancement_level = b.enhancement_level
    /\ a.op = "enhance_image" => a.params = b.params
    /\ a.op = "generate_enhancement_params" => a.quality_diff = b.quality_diff

Returned2(f) == f.pc \in {"done", "raised"}

\* C16: invocations on the shared ml_pipeline instance are self-contained:
\* no step of any entry point writes an attribute of the pipeline objects,
\* an input grid or the input diff, and under any interleaving of two
\* invocations each call ends as the same call ends in the other invocation,
\* whichever of them ran first or alone.
C16_SelfContained ==
    /\ [][/\ heap' = heap
          /\ ml_pipeline' = ml_pipeline
          /\ (pc = "generate" /\ suspended' = suspended)
                => quality_diff' = quality_diff]_vars
    /\ []((Returned2(Frame) /\ Returned2(suspended) /\ SameCall(Frame, suspended))
            => (pc = suspended.pc /\ result = suspended.result
                /\ params = suspended.params))

\* two process_images calls on the same pair of grids have both returned,
\* each after its sharpen stage wrote its 3-channel working grid in place
C16_Witness ==
    /\ op = "process_images" /\ pc = "done"
    /\ suspended.op = "process_images" /\ suspended.pc = "done"
    /\ \E i \in DOMAIN stages : stages[i].name = "sharpen"
    /\ \E i \in DOMAIN suspended.stages : suspended.stages[i].name = "sharpen"
    /\ Ndim(result.enhanced_image) = 3
    /\ result = suspended.result
    /\ heap = SharedGrids

(***************************************************************************)
(* Properties of registration                                              *)
(***************************************************************************)
\* C21: create_user never leaves two user records with the same email: a
\* registration for an email that already has a record fails with
\* ValueError('User with this email already exists') and inserts nothing,
\* also when two registrations for the same email interleave at the await
\* points between the existence check and the insert.
C21_UniqueEmails ==
    /\ \A i, j \in DOMAIN db_users :
          i # j => db_users[i].email # db_users[j].email
    /\ \A r \in DOMAIN registrations :
          registrations[r].existing_user # 0 =>
             /\ registrations[r].code = 400
             /\ registrations[r].detail = AlreadyExists
             /\ registrations[r].id = 0

====
